---- MODULE Spec2Model ----
(***************************************************************************)
(* perl-critic-sarif: a model of src/main.rs, the translator of a          *)
(* Perl::Critic JSON report into a SARIF 2.1.0 document.                   *)
(*                                                                         *)
(* Text is a sequence of characters, each character a one-element string   *)
(* ("a", ":", ...); characters outside ASCII are written by their code     *)
(* points ("U+0130", "U+0307", "U+01C5", "U+01C6").                        *)
(* A u32 is the pair <<hi, lo>> of its 16-bit halves (value hi*2^16 + lo), *)
(* so that 0 and 2^32 - 1 are both values of the model.                    *)
(***************************************************************************)
EXTENDS Integers, Sequences, FiniteSets, TLC

VARIABLES
    policy,     \* SpecId: the policy string handed to policy_to_id
    id,         \* SpecId: what policy_to_id returned, or NoId
    remote,     \* SpecUrl: the remote handed to git_remote_to_public_url
    url,        \* SpecUrl: what git_remote_to_public_url returned, or NotRun
    violation,  \* SpecResult: the violation handed to SarifResult::try_from
    vres,       \* SpecResult: what try_from returned (or a panic), or NotRun
    overflowChecks, \* the build: TRUE when u32 overflow panics (debug
                \* profile), FALSE when it wraps (release profile)
    pc,         \* Spec: the statement of main the process is at
    args,       \* Spec: the parsed command line
    input,      \* Spec: what the input stream holds: a report, or Malformed
    gitRepo,    \* Spec: the repository git2 finds from the environment
    sink,       \* Spec: what the output sink (file or stdout) holds
    sinkBefore, \* Spec: what it held when the process started
    report,     \* Spec: the decoded report, or None
    sarif,      \* Spec: the document built from it, or None
    outcome,    \* Spec: how main ended, or NotRun
    prevSarif   \* Spec: the document of the previous run on this input, or None

idVars == <<policy, id>>
urlVars == <<remote, url>>
resultVars == <<violation, vres>>
mainVars == <<pc, args, input, gitRepo, sink, sinkBefore, report, sarif, outcome,
              prevSarif>>
vars == <<idVars, urlVars, resultVars, overflowChecks, mainVars>>

None == [none |-> TRUE]

\* Result<T>: Ok(v) or Err(e).
Ok(v) == [ok |-> TRUE, value |-> v]
Err(e) == [ok |-> FALSE, error |-> e]

\* What a variable holds before the operation that sets it has run.
NotRun == [run |-> FALSE]
NoId == <<>>

\* ------------------------------------------------------------------ bounds

\* Longest text that follows the namespace prefix of a generated policy.
MaxTailLen == 5

\* Longest host and longest repository path of a generated remote.
MaxHostLen == 2
MaxRepoLen == 2

\* Longest source line of a generated violation.
MaxSourceLen == 2

\* Most violations of a generated report.
MaxViolations == 2

\* ------------------------------------------------------- text (std library)

\* char::is_uppercase: the Unicode Uppercase property. U+0130 (capital I with
\* dot above) has it; U+01C5 (the titlecase digraph Dz with caron) does not.
is_uppercase(c) == c \in {"A", "B", "C", "F", "P", "S", "V", "U+0130"}

\* char::to_lowercase: the characters of c's lowercase mapping, in order.
to_lowercase(c) ==
    CASE c = "A" -> <<"a">>
      [] c = "B" -> <<"b">>
      [] c = "C" -> <<"c">>
      [] c = "F" -> <<"f">>
      [] c = "P" -> <<"p">>
      [] c = "S" -> <<"s">>
      [] c = "V" -> <<"v">>
      [] c = "U+0130" -> <<"i", "U+0307">>
      [] c = "U+01C5" -> <<"U+01C6">>
      [] OTHER -> <<c>>

\* str::split(pat) from position i on: cur is the segment being read and acc
\* the segments already closed; matches of pat are taken leftmost, and never
\* overlap.
RECURSIVE SplitFrom(_, _, _, _, _)
SplitFrom(s, pat, i, cur, acc) ==
    IF i > Len(s) THEN Append(acc, cur)
    ELSE IF i + Len(pat) - 1 <= Len(s) /\ SubSeq(s, i, i + Len(pat) - 1) = pat
         THEN SplitFrom(s, pat, i + Len(pat), <<>>, Append(acc, cur))
         ELSE SplitFrom(s, pat, i + 1, Append(cur, s[i]), acc)

split(s, pat) == SplitFrom(s, pat, 1, <<>>, <<>>)

\* Iterator::skip(n).
skip(segs, n) == SubSeq(segs, n + 1, Len(segs))

\* [String]::join(sep).
RECURSIVE join(_, _)
join(segs, sep) ==
    IF segs = <<>> THEN <<>>
    ELSE IF Len(segs) = 1 THEN segs[1]
    ELSE segs[1] \o sep \o join(Tail(segs), sep)

\* ------------------------------------------------ policy identifier (4.2)

\* The loop of camel_to_snake at the character of (1-based) index i.
RECURSIVE camel_loop(_, _, _)
camel_loop(s, i, result) ==
    IF i > Len(s) THEN result
    ELSE LET c == s[i] IN
         camel_loop(s, i + 1,
            IF is_uppercase(c)
            THEN (IF i > 1 THEN Append(result, "_") ELSE result)
                     \o <<Head(to_lowercase(c))>>
            ELSE Append(result, c))

camel_to_snake(s) == camel_loop(s, 1, <<>>)

\* .map(camel_to_snake).collect::<Vec<_>>().join("/"), and the format! that
\* puts "perl/" before it.
perl_id(segs) ==
    <<"p", "e", "r", "l", "/">>
        \o join([k \in DOMAIN segs |-> camel_to_snake(segs[k])], <<"/">>)

\* policy_to_id with the namespace prefix taken to be 3 segments long.
policy_to_id_skip3(p) == perl_id(skip(split(p, <<":", ":">>), 3))

policy_to_id(p) == perl_id(skip(split(p, <<":", ":">>), 4))

policy_to_name(p) == join(skip(split(p, <<":", ":">>), 4), <<>>)

\* ------------------------------------------------------------- SpecId

\* The characters of a generated policy's tail.
PolicyChars == {"a", "B", "U+0130", "U+01C5", ":"}

\* The namespace prefix of a Perl::Critic policy, segment by segment.
PolicyPrefix == << <<"P", "e", "r", "l">>, <<"C", "r", "i", "t", "i", "c">>,
                   <<"P", "o", "l", "i", "c", "y">>, <<"V", "a", "r", "s">> >>

Texts(chars, n) == UNION {[1..k -> chars] : k \in 0..n}

\* A policy: the first p segments of the prefix, then any text as the next.
Policies ==
    {join(Append(SubSeq(PolicyPrefix, 1, p), t), <<":", ":">>) :
        p \in 0..4, t \in Texts(PolicyChars, MaxTailLen)}

IdleId == policy = <<>> /\ id = NoId
IdleUrl == remote = <<>> /\ url = NotRun
IdleResult == violation = None /\ vres = NotRun
IdleMain ==
    /\ pc = "idle" /\ args = None /\ input = None /\ gitRepo = None
    /\ sink = None /\ sinkBefore = None /\ report = None /\ sarif = None
    /\ outcome = NotRun /\ prevSarif = None

InitId ==
    /\ policy \in Policies /\ id = NoId
    /\ IdleUrl /\ IdleResult /\ IdleMain /\ overflowChecks = FALSE

DeriveId ==
    /\ id = NoId
    /\ id' = policy_to_id(policy)
    /\ UNCHANGED <<policy, urlVars, resultVars, overflowChecks, mainVars>>

NextId == DeriveId

SpecId == InitId /\ [][NextId]_vars

\* ------------------------------------------------ u32 arithmetic

\* 2^16: a u32 is <<hi, lo>>, both in 0..Half-1; U8Max is the largest u8.
Half == 65536
U8Max == 255

U32Zero == <<0, 0>>
U32Max == <<Half - 1, Half - 1>>

\* From<u8>/From<i32 literal>: the u32 of a small number.
U32Of(n) == <<0, n>>

\* `n - 1` and `n + 1` on u32 where overflow wraps (overflow checks off).
wrapping_sub1(n) ==
    IF n[2] > 0 THEN <<n[1], n[2] - 1>>
    ELSE IF n[1] > 0 THEN <<n[1] - 1, Half - 1>>
    ELSE U32Max

wrapping_add1(n) ==
    IF n[2] < Half - 1 THEN <<n[1], n[2] + 1>>
    ELSE IF n[1] < Half - 1 THEN <<n[1] + 1, 0>>
    ELSE U32Zero

\* `len as u32`: the low 32 bits of a usize.
as_u32(len) == <<(len \div Half) % Half, len % Half>>

\* ------------------------------------------------ violation -> result (4.4)

Panic(msg) == [ok |-> FALSE, panic |-> msg]

Project == <<"p", "r", "o", "j", "e", "c", "t">>

\* level_of with the arms of 5 and 4 exchanged.
level_of_swapped(severity) ==
    CASE severity = 5 -> "warning"
      [] severity = 4 -> "error"
      [] severity = 3 -> "note"
      [] OTHER -> "none"

\* The match on v.severity.
level_of(severity) ==
    CASE severity = 5 -> "error"
      [] severity = 4 -> "warning"
      [] severity = 3 -> "note"
      [] OTHER -> "none"

\* The location built for v, its arithmetic wrapping.
location_of(v) ==
    [physical_location |->
        [artifact_location |->
            [uri |-> Project \o <<"/">> \o v.filename, uri_base_id |-> "PROJECT"],
         context_region |->
            [start_line |-> wrapping_sub1(v.line_number),
             start_column |-> U32Of(1),
             end_line |-> wrapping_add1(v.line_number),
             end_column |-> U32Of(1),
             snippet |-> [text |-> v.source]],
         region |->
            [start_line |-> v.line_number,
             start_column |-> v.column_number,
             end_line |-> v.line_number,
             end_column |-> as_u32(Len(v.source)),
             snippet |-> [text |-> v.source]]]]

\* SarifResult::try_from(v) in a build with (checks) or without overflow
\* checks: `line_number - 1` is evaluated before `line_number + 1`, and with
\* the checks either one panics where without them it wraps.
try_from_violation(v, checks) ==
    IF checks /\ v.line_number = U32Zero
    THEN Panic("attempt to subtract with overflow")
    ELSE IF checks /\ v.line_number = U32Max
    THEN Panic("attempt to add with overflow")
    ELSE Ok([message |-> [text |-> v.diagnostics],
             level |-> level_of(v.severity),
             rule_id |-> policy_to_id(v.policy),
             locations |-> <<location_of(v)>>])

\* ------------------------------------------------------------- SpecResult

LocalVars == <<"P", "e", "r", "l", ":", ":", "C", "r", "i", "t", "i", "c", ":", ":",
               "P", "o", "l", "i", "c", "y", ":", ":", "V", "a", "r", "s", ":", ":",
               "F", "o", "o", "B", "a", "r">>
FooPm == <<"F", ".", "p", "m">>

\* Line and column numbers the decoder accepts: any u32.
SomeU32 == {U32Zero, U32Of(1), U32Of(10), <<0, Half - 1>>, <<1, 0>>,
            <<Half - 1, Half - 2>>, U32Max}

SomeColumns == {U32Zero, U32Of(4), U32Max}

Sources == Texts({"m"}, MaxSourceLen)

InitResult ==
    /\ violation \in
           [filename : {FooPm}, line_number : SomeU32, column_number : SomeColumns,
            severity : 0..U8Max, source : Sources, diagnostics : {"diagnostics"},
            explanation : {"explanation"}, description : {"description"},
            policy : {LocalVars}]
    /\ vres = NotRun
    /\ overflowChecks \in BOOLEAN
    /\ IdleId /\ IdleUrl /\ IdleMain

TranslateViolation ==
    /\ vres = NotRun
    /\ vres' = try_from_violation(violation, overflowChecks)
    /\ UNCHANGED <<violation, idVars, urlVars, overflowChecks, mainVars>>

NextResult == TranslateViolation

SpecResult == InitResult /\ [][NextResult]_vars

\* ------------------------------------------------ C6: severity -> level

\* C6: every severity a violation can carry (a u8) is given exactly one of the
\* four levels, 5 error, 4 warning, 3 note and any other value none, and the
\* result carries that level.
C6_SeverityLevel ==
    vres # NotRun =>
        LET lv == level_of(violation.severity) IN
        /\ lv \in {"error", "warning", "note", "none"}
        /\ lv = "error" <=> violation.severity = 5
        /\ lv = "warning" <=> violation.severity = 4
        /\ lv = "note" <=> violation.severity = 3
        /\ lv = "none" <=> violation.severity \in (0..U8Max) \ {3, 4, 5}
        /\ vres.ok => vres.value.level = lv

\* A violation of severity 6 has been translated into a result.
C6_Witness ==
    /\ vres # NotRun /\ vres.ok
    /\ violation.severity = 6
    /\ vres.value.level = "none"

\* ------------------------------------------------ C7, C10: the regions

\* b is a + 1, as numbers (no wrapping).
IsNext(a, b) ==
    \/ a[2] < Half - 1 /\ b = <<a[1], a[2] + 1>>
    \/ a[2] = Half - 1 /\ a[1] < Half - 1 /\ b = <<a[1] + 1, 0>>

\* l is the length of text s, as a number.
IsLen(s, l) == Len(s) \div Half < Half /\ l = <<Len(s) \div Half, Len(s) % Half>>

ContextRegion == vres.value.locations[1].physical_location.context_region
PreciseRegion == vres.value.locations[1].physical_location.region

\* C7: the result of a violation with line_number >= 1 has the context region
\* line_number - 1 to line_number + 1, columns 1 and 1, and the precise
\* region line_number to line_number, columns column_number to the length of
\* the source; both carry the source as snippet.
C7_Regions ==
    (vres # NotRun /\ vres.ok /\ violation.line_number # U32Zero) =>
        /\ IsNext(ContextRegion.start_line, violation.line_number)
        /\ IsNext(violation.line_number, ContextRegion.end_line)
        /\ ContextRegion.start_column = U32Of(1)
        /\ ContextRegion.end_column = U32Of(1)
        /\ PreciseRegion.start_line = violation.line_number
        /\ PreciseRegion.end_line = violation.line_number
        /\ PreciseRegion.start_column = violation.column_number
        /\ IsLen(violation.source, PreciseRegion.end_column)
        /\ ContextRegion.snippet.text = violation.source
        /\ PreciseRegion.snippet.text = violation.source

\* C10: for every violation the decoder accepts, line_number - 1,
\* line_number + 1 and the source length cast to u32 are computed without
\* underflow, overflow or truncation: the translation does not panic and each
\* bound is the exact number.
C10_NoOverflow ==
    vres # NotRun =>
        /\ vres.ok
        /\ IsNext(ContextRegion.start_line, violation.line_number)
        /\ IsNext(violation.line_number, ContextRegion.end_line)
        /\ IsLen(violation.source, PreciseRegion.end_column)

\* ------------------------------------------------ remote URL (4.5)

NoMatch == [matched |-> FALSE]

\* The first place at or after from where s holds ch, or 0.
FirstAt(s, ch, from) ==
    LET at == {i \in from..Len(s) : s[i] = ch}
    IN  IF at = {} THEN 0 ELSE CHOOSE i \in at : \A j \in at : i <= j

\* The tail "(?P<repo>.+).git" of both patterns, read from `from` on: the
\* places a repo may end, '.' being any character but a line feed.
RepoEnds(s, from) ==
    {e \in from..(Len(s) - 4) :
        /\ \A k \in from..(e + 1) : s[k] # "\n"
        /\ SubSeq(s, e + 2, e + 4) = <<"g", "i", "t">>}

Longest(ends) == CHOOSE e \in ends : \A f \in ends : f <= e

\* The captures of a match whose host starts at hs and ends before the
\* separator at c (0: there is none), the repo ending at one of ends: .+ is
\* greedy, so at the last of them.
Captures(s, hs, c, ends) ==
    IF c > hs /\ ends # {}
    THEN [matched |-> TRUE, host |-> SubSeq(s, hs, c - 1),
          repo |-> SubSeq(s, c + 1, Longest(ends))]
    ELSE NoMatch

\* "(?P<host>[^sep]+)sep(?P<repo>.+).git" read from hs on: the host ends at
\* the first sep.
HostThenRepo(s, hs, c) == Captures(s, hs, c, RepoEnds(s, c + 1))

\* "(?P<user>[^@]+@)" read at `at`, a being the place of the first '@' from
\* there on (0: none), then the host and the repo.
UserThenHost(s, at, a) ==
    IF a > at THEN HostThenRepo(s, a + 1, FirstAt(s, ":", a + 1)) ELSE NoMatch

\* Option::or_else, and the order of a backtracking search: a, else b.
or_else(a, b) == IF a # NoMatch THEN a ELSE b

\* ssh_re = (?P<user>[^@]+@)?(?P<host>[^:]+):(?P<repo>.+).git tried at
\* place `at`: with the optional user group first, then without it.
SshAt(s, at) ==
    or_else(UserThenHost(s, at, FirstAt(s, "@", at)),
            HostThenRepo(s, at, FirstAt(s, ":", at)))

\* Regex::captures: of the matches found at each place, the leftmost.
Leftmost(found) ==
    IF \A at \in DOMAIN found : found[at] = NoMatch THEN NoMatch
    ELSE found[CHOOSE i \in DOMAIN found :
                /\ found[i] # NoMatch
                /\ \A j \in 1..(i - 1) : found[j] = NoMatch]

ssh_re(s) == Leftmost([at \in 1..Len(s) |-> SshAt(s, at)])

\* "https?://" read at place `at`: the place after it, or 0.
AfterScheme(s, at, h) ==
    IF /\ at + 3 <= Len(s) /\ SubSeq(s, at, at + 3) = <<"h", "t", "t", "p">>
       /\ h + 2 <= Len(s) /\ SubSeq(s, h, h + 2) = <<":", "/", "/">>
    THEN h + 3 ELSE 0

\* http_re = https?://(?P<host>[^/]+)/(?P<repo>.+).git from the host on.
HttpHost(s, hs) ==
    IF hs = 0 THEN NoMatch ELSE HostThenRepo(s, hs, FirstAt(s, "/", hs))

HttpAt(s, at) ==
    HttpHost(s, AfterScheme(s, at,
        at + 4 + (IF at + 4 <= Len(s) /\ s[at + 4] = "s" THEN 1 ELSE 0)))

http_re(s) == Leftmost([at \in 1..Len(s) |-> HttpAt(s, at)])

\* Line 247-256: both groups take part in every match of either pattern.
public_url(captures) ==
    IF captures = NoMatch THEN Err("Could not parse remote")
    ELSE Ok(<<"h", "t", "t", "p", "s", ":", "/", "/">>
                \o captures.host \o <<"/">> \o captures.repo)

git_remote_to_public_url(r) == public_url(or_else(ssh_re(r), http_re(r)))

\* ------------------------------------------------------------- SpecUrl

HostChars == {"h", ".", ":", "@"}
RepoChars == {"r", "/", "."}
Hosts == Texts(HostChars, MaxHostLen) \ {<<>>}
Repos == Texts(RepoChars, MaxRepoLen) \ {<<>>}

DotGit == <<".", "g", "i", "t">>

\* Remotes of the HTTP(S) shape, of the SSH shape, and of neither.
HttpRemotes ==
    {scheme \o <<":", "/", "/">> \o h \o <<"/">> \o r \o DotGit :
        scheme \in {<<"h", "t", "t", "p">>, <<"h", "t", "t", "p", "s">>},
        h \in Hosts, r \in Repos}
SshRemotes ==
    {u \o h \o <<":">> \o r \o DotGit :
        u \in {<<>>, <<"g", "i", "t", "@">>}, h \in Hosts, r \in Repos}
OtherRemotes == Texts({"n", "-", "."}, MaxRepoLen) \cup Hosts \cup {DotGit}

InitUrl ==
    /\ remote \in HttpRemotes \cup SshRemotes \cup OtherRemotes /\ url = NotRun
    /\ IdleId /\ IdleResult /\ IdleMain /\ overflowChecks = FALSE

Normalize ==
    /\ url = NotRun
    /\ url' = git_remote_to_public_url(remote)
    /\ UNCHANGED <<remote, idVars, resultVars, overflowChecks, mainVars>>

NextUrl == Normalize

SpecUrl == InitUrl /\ [][NextUrl]_vars

\* ------------------------------------------------ rule catalogue (4.3)

MetacpanPod == <<"h", "t", "t", "p", "s", ":", "/", "/", "m", "e", "t", "a", "c", "p",
                 "a", "n", ".", "o", "r", "g", "/", "p", "o", "d", "/">>

\* The ReportingDescriptor the closure of rules() builds for v.
descriptor_of(v) ==
    [id |-> policy_to_id(v.policy),
     name |-> policy_to_name(v.policy),
     help_uri |-> MetacpanPod \o v.policy]

\* HashMap::insert: the entry of key k is set, replacing the one it had.
insert(map, k, d) == [x \in DOMAIN map \cup {k} |-> IF x = k THEN d ELSE map[x]]

\* insert that keeps the entry a key already has.
insert_if_absent(map, k, d) ==
    [x \in DOMAIN map \cup {k} |-> IF x \in DOMAIN map THEN map[x] ELSE d]

\* collect::<HashMap<_, _>>: the pairs (id, descriptor) of the violations
\* from the i-th on are inserted in order into map.
RECURSIVE collect_first_wins(_, _, _)
collect_first_wins(vs, i, map) ==
    IF i > Len(vs) THEN map
    ELSE collect_first_wins(vs, i + 1,
            insert_if_absent(map, policy_to_id(vs[i].policy), descriptor_of(vs[i])))

RECURSIVE collect_by_policy(_, _, _)
collect_by_policy(vs, i, map) ==
    IF i > Len(vs) THEN map
    ELSE collect_by_policy(vs, i + 1, insert(map, vs[i].policy, descriptor_of(vs[i])))

RECURSIVE collect_rules(_, _, _)
collect_rules(vs, i, map) ==
    IF i > Len(vs) THEN map
    ELSE collect_rules(vs, i + 1,
            insert(map, policy_to_id(vs[i].policy), descriptor_of(vs[i])))

EmptyMap == [x \in {} |-> None]

\* The HashMap of rules() with the first descriptor of an identifier kept.
rules_map_first_wins(rep) == collect_first_wins(rep.violations, 1, EmptyMap)

\* The HashMap of rules() keyed by the policy instead of the identifier.
rules_map_by_policy(rep) == collect_by_policy(rep.violations, 1, EmptyMap)

\* The HashMap rules() collects.
rules_map(rep) == collect_rules(rep.violations, 1, EmptyMap)

\* The orders HashMap::values may visit the keys in: the hasher is seeded at
\* random in each process, so any order.
Orders(keys) ==
    {o \in [1..Cardinality(keys) -> keys] : \A i, j \in DOMAIN o : o[i] = o[j] => i = j}

\* rules(): the values of the map, in the order the map is visited in.
rules(rep, order) ==
    LET map == rules_map(rep) IN [k \in DOMAIN order |-> map[order[k]]]

\* ------------------------------------------------ provenance (4.5)

\* Line 222-237, repo_url being git_remote_to_public_url of the origin.
provenance_with(r, repo_url) ==
    IF ~r.found THEN Err("could not find repository")
    ELSE IF ~r.hasOrigin THEN Err("config value 'remote.origin.url' was not found")
    ELSE IF ~repo_url.ok THEN repo_url
    ELSE IF ~r.hasHead THEN Err("reference 'refs/heads/main' not found")
    ELSE Ok(<<[repository_uri |-> repo_url.value,
               branch |-> IF r.hasShorthand THEN r.shorthand ELSE "(detached head)",
               revision_id |-> r.commit,
               mapped_to |-> [uri |-> Project, uri_base_id |-> "PROJECT"]]>>)

version_control_provenance(r) ==
    provenance_with(r, git_remote_to_public_url(r.origin))

\* ------------------------------------------------ run and document (4.6)

\* collect::<Result<Vec<_>>>() with the results put last violation first.
collect_reversed(each) ==
    IF \E i \in DOMAIN each : ~each[i].ok
    THEN each[CHOOSE i \in DOMAIN each :
                ~each[i].ok /\ \A j \in 1..(i - 1) : each[j].ok]
    ELSE Ok([i \in DOMAIN each |-> each[Len(each) + 1 - i].value])

\* collect::<Result<Vec<_>>>(): the values in order, or the first failure.
collect(each) ==
    IF \E i \in DOMAIN each : ~each[i].ok
    THEN each[CHOOSE i \in DOMAIN each :
                ~each[i].ok /\ \A j \in 1..(i - 1) : each[j].ok]
    ELSE Ok([i \in DOMAIN each |-> each[i].value])

\* violations.into_iter().map(try_into).collect(): each violation translated
\* in order; the first that panics ends the process.
results(vs, checks) ==
    collect([i \in DOMAIN vs |-> try_from_violation(vs[i], checks)])

\* RunBuilder, given what rules(), the provenance and the results came to.
build_run(rep, catalogue, provenance, translated) ==
    IF ~provenance.ok THEN provenance
    ELSE IF ~translated.ok THEN translated
    ELSE Ok([tool |->
                [driver |->
                    [name |-> "Perl Critic",
                     full_name |-> "Perl::Critic",
                     version |-> rep.perl_critic_version,
                     information_uri |-> "https://metacpan.org/pod/Perl::Critic",
                     rules |-> catalogue]],
             version_control_provenance |-> provenance.value,
             results |-> translated.value])

\* Run::try_from(report): rules(), then the provenance, then the results.
try_into_run(rep, r, checks, order) ==
    build_run(rep, rules(rep, order), version_control_provenance(r),
              results(rep.violations, checks))

\* SarifBuilder, given what Run::try_from came to.
build_sarif(run) ==
    IF ~run.ok THEN run
    ELSE Ok([runs |-> <<run.value>>,
             schema |-> "https://raw.githubusercontent.com/oasis-tcs/sarif-spec/master/Schemata/sarif-schema-2.1.0.json",
             version |-> "2.1.0"])

\* Sarif::try_from(report).
try_into_sarif(rep, r, checks, order) == build_sarif(try_into_run(rep, r, checks, order))

\* ------------------------------------------------------------- Spec (main)

SubsFooBar == <<"P", "e", "r", "l", ":", ":", "C", "r", "i", "t", "i", "c", ":", ":",
                "P", "o", "l", "i", "c", "y", ":", ":", "S", "u", "b", "s", ":", ":",
                "F", "o", "o", "B", "a", "r">>
PerlCritic == <<"P", "e", "r", "l", ":", ":", "C", "r", "i", "t", "i", "c">>

\* The violations of a generated report: two policies of one identifier and
\* a policy of fewer than 5 segments, on line 5, and the first also on line 0.
ReportViolations ==
    {v \in [filename : {FooPm}, line_number : {U32Zero, U32Of(5)},
            column_number : {U32Of(3)}, severity : {5}, source : {<<"m">>},
            diagnostics : {"diagnostics"}, explanation : {"explanation"},
            description : {"description"},
            policy : {LocalVars, SubsFooBar, PerlCritic}] :
        v.line_number = U32Zero => v.policy = LocalVars}

Reports ==
    [perl_critic_version : {"1.2.3"},
     violations : UNION {[1..n -> ReportViolations] : n \in 0..MaxViolations}]

SshOrigin == <<"g", "i", "t", "@", "h", ":", "r", ".", "g", "i", "t">>
HttpsOrigin == <<"h", "t", "t", "p", "s", ":", "/", "/", "h", "/", "r", ".", "g", "i", "t">>
NotAUrl == <<"n", "o", "t", "-", "a", "-", "u", "r", "l">>

\* What Repository::open_from_env may find: no repository; one without an
\* origin remote; one whose origin is of no known shape; one on a branch, its
\* origin of the SSH or of the HTTPS shape; one that has no commit yet.
SomeRepo(found, hasOrigin, origin, hasHead, hasShorthand) ==
    [found |-> found, hasOrigin |-> hasOrigin, origin |-> origin, hasHead |-> hasHead,
     hasShorthand |-> hasShorthand, shorthand |-> "main", commit |-> "c0ffee"]

GitRepos ==
    {SomeRepo(FALSE, FALSE, <<>>, FALSE, FALSE),
     SomeRepo(TRUE, FALSE, <<>>, TRUE, TRUE),
     SomeRepo(TRUE, TRUE, NotAUrl, TRUE, TRUE),
     SomeRepo(TRUE, TRUE, SshOrigin, TRUE, TRUE),
     SomeRepo(TRUE, TRUE, HttpsOrigin, TRUE, FALSE),
     SomeRepo(TRUE, TRUE, SshOrigin, FALSE, FALSE)}

\* What a sink holds: whether it exists, and the documents written to it, each
\* whole or cut short. Previous is what an existing output file held.
Previous == [doc |-> None, complete |-> TRUE]
Sink(exists, content) == [exists |-> exists, content |-> content]

Failed(stage, e) == [ok |-> FALSE, stage |-> stage, error |-> e]

Init ==
    /\ pc = "open_input"
    /\ args \in [input : {"file", "stdin"}, output : {"file", "stdout"}]
    /\ \/ \E rep \in Reports : input = [json |-> TRUE, report |-> rep]
       \/ input = [json |-> FALSE, report |-> None]
    /\ gitRepo \in GitRepos
    /\ overflowChecks \in BOOLEAN
    /\ sink \in IF args.output = "file"
                THEN {Sink(FALSE, <<>>), Sink(TRUE, <<Previous>>)}
                ELSE {Sink(TRUE, <<>>)}
    /\ sinkBefore = sink
    /\ report = None /\ sarif = None /\ outcome = NotRun /\ prevSarif = None
    /\ IdleId /\ IdleUrl /\ IdleResult

\* main, line 70-73: File::open(path)?, or stdin.
OpenInput ==
    /\ pc = "open_input"
    /\ \E opened \in BOOLEAN :
        /\ ~opened => args.input = "file"
        /\ IF opened
           THEN pc' = "create_output" /\ UNCHANGED outcome
           ELSE pc' = "done" /\ outcome' = Failed("open_input", "io")
    /\ UNCHANGED <<args, input, gitRepo, sink, sinkBefore, report, sarif, prevSarif,
                   idVars, urlVars, resultVars, overflowChecks>>

\* main, line 74-77: File::create(path)? creates the file or truncates it;
\* stdout is left as it is.
CreateOutput ==
    /\ pc = "create_output"
    /\ \E created \in BOOLEAN :
        /\ ~created => args.output = "file"
        /\ IF created
           THEN /\ pc' = "decode"
                /\ sink' = IF args.output = "file" THEN Sink(TRUE, <<>>) ELSE sink
                /\ UNCHANGED outcome
           ELSE pc' = "done" /\ outcome' = Failed("create_output", "io")
                    /\ UNCHANGED sink
    /\ UNCHANGED <<args, input, gitRepo, sinkBefore, report, sarif, prevSarif,
                   idVars, urlVars, resultVars, overflowChecks>>

\* main, line 79: serde_json::from_reader(input)?
Decode ==
    /\ pc = "decode"
    /\ IF input.json
       THEN pc' = "translate" /\ report' = input.report /\ UNCHANGED outcome
       ELSE pc' = "done" /\ outcome' = Failed("decode", "json") /\ UNCHANGED report
    /\ UNCHANGED <<args, input, gitRepo, sink, sinkBefore, sarif, prevSarif,
                   idVars, urlVars, resultVars, overflowChecks>>

\* main, line 80: `?` on what report.try_into() came to.
Translated(built) ==
    IF built.ok
    THEN pc' = "write" /\ sarif' = built.value /\ UNCHANGED outcome
    ELSE pc' = "done" /\ UNCHANGED sarif /\ outcome' = Failed("translate", built)

\* main, line 80: report.try_into()?
Translate ==
    /\ pc = "translate"
    /\ \E order \in Orders(DOMAIN rules_map(report)) :
        Translated(try_into_sarif(report, gitRepo, overflowChecks, order))
    /\ UNCHANGED <<args, input, gitRepo, sink, sinkBefore, report, prevSarif,
                   idVars, urlVars, resultVars, overflowChecks>>

\* main, line 81-83: serde_json::to_writer(output, &sarif)?, which writes the
\* document piece by piece and stops at the first write that fails.
Write ==
    /\ pc = "write"
    /\ \E written \in BOOLEAN :
        /\ sink' = Sink(TRUE, Append(sink.content, [doc |-> sarif, complete |-> written]))
        /\ outcome' = IF written THEN Ok("()") ELSE Failed("write", "io")
    /\ pc' = "done"
    /\ UNCHANGED <<args, input, gitRepo, sinkBefore, report, sarif, prevSarif,
                   idVars, urlVars, resultVars, overflowChecks>>

\* The tool is run once more on the same input, in the same repository, with
\* the same arguments; a new process starts with nothing written to stdout.
Rerun ==
    /\ pc = "done" /\ outcome.ok /\ prevSarif = None
    /\ pc' = "open_input"
    /\ prevSarif' = sarif
    /\ sink' = IF args.output = "file" THEN sink ELSE Sink(TRUE, <<>>)
    /\ sinkBefore' = sink'
    /\ report' = None /\ sarif' = None /\ outcome' = NotRun
    /\ UNCHANGED <<args, input, gitRepo, idVars, urlVars, resultVars, overflowChecks>>

Next == OpenInput \/ CreateOutput \/ Decode \/ Translate \/ Write \/ Rerun

Spec == Init /\ [][Next]_vars

\* ------------------------------------------------ C1, C2, C8: the run

Violations == report.violations
Catalogue == sarif.runs[1].tool.driver.rules
Results == sarif.runs[1].results

\* C1: a report whose translation succeeds has as many results as violations,
\* and the i-th result is the translation of the i-th violation.
C1_ResultsInOrder ==
    sarif # None =>
        /\ Len(Results) = Len(Violations)
        /\ \A i \in 1..Len(Violations) :
            /\ Results[i].rule_id = policy_to_id(Violations[i].policy)
            /\ Results[i].message.text = Violations[i].diagnostics
            /\ Results[i].level = level_of(Violations[i].severity)
            /\ Results[i].locations[1].physical_location.artifact_location.uri
                    = Project \o <<"/">> \o Violations[i].filename
            /\ Results[i].locations[1].physical_location.region.start_line
                    = Violations[i].line_number
            /\ Results[i].locations[1].physical_location.region.start_column
                    = Violations[i].column_number

\* A report of two violations that differ has been translated.
C1_Witness ==
    /\ sarif # None
    /\ Len(Violations) = 2
    /\ Violations[1].line_number # Violations[2].line_number
    /\ Violations[1].policy # Violations[2].policy
    /\ Len(Results) = 2

\* The last violation of the report whose policy derives identifier rid.
LastOf(rid) ==
    CHOOSE i \in 1..Len(Violations) :
        /\ policy_to_id(Violations[i].policy) = rid
        /\ \A j \in (i + 1)..Len(Violations) : policy_to_id(Violations[j].policy) # rid

\* C2: the catalogue has exactly one descriptor for the identifier of each
\* violation, none for any other identifier, and the help URI of each is
\* https://metacpan.org/pod/ followed by the policy of the last violation
\* that derives its identifier.
C2_RulesLastWins ==
    sarif # None =>
        /\ \A i \in 1..Len(Violations) :
              Cardinality({k \in 1..Len(Catalogue) :
                  Catalogue[k].id = policy_to_id(Violations[i].policy)}) = 1
        /\ \A k \in 1..Len(Catalogue) :
              /\ \E i \in 1..Len(Violations) :
                    Catalogue[k].id = policy_to_id(Violations[i].policy)
              /\ Catalogue[k].help_uri
                    = MetacpanPod \o Violations[LastOf(Catalogue[k].id)].policy

\* Two violations whose different policies derive one identifier have been
\* given one descriptor, with the help URI of the second.
C2_Witness ==
    /\ sarif # None
    /\ Len(Violations) = 2
    /\ Violations[1].policy = LocalVars
    /\ Violations[2].policy = SubsFooBar
    /\ Len(Catalogue) = 1
    /\ Catalogue[1].help_uri = MetacpanPod \o SubsFooBar

\* C8: in a document, the rule identifier of each result is the identifier of
\* exactly one descriptor of the catalogue, and no two descriptors of the
\* catalogue have the same identifier.
C8_RuleIdsResolve ==
    sarif # None =>
        /\ \A i \in 1..Len(Results) :
              Cardinality({k \in 1..Len(Catalogue) :
                  Catalogue[k].id = Results[i].rule_id}) = 1
        /\ \A k, l \in 1..Len(Catalogue) :
              Catalogue[k].id = Catalogue[l].id => k = l

\* A document with results of two rules and a catalogue of two descriptors.
C8_Witness ==
    /\ sarif # None
    /\ Len(Results) = 2
    /\ Results[1].rule_id # Results[2].rule_id
    /\ Len(Catalogue) = 2

\* ------------------------------------------------ C3: all or nothing

\* What the sink holds once the whole document has been written to it.
WholeDocument ==
    Sink(TRUE, (IF args.output = "file" THEN <<>> ELSE sinkBefore.content)
                  \o <<[doc |-> sarif, complete |-> TRUE]>>)

\* C3: when the process has ended, the sink holds the complete document or
\* is exactly as it was before the run; after a failure in decoding or in
\* translation the output has not been created, truncated or written.
C3_AllOrNothing ==
    pc = "done" =>
        /\ sink = sinkBefore \/ (sarif # None /\ sink = WholeDocument)
        /\ outcome.ok => (sarif # None /\ sink = WholeDocument)
        /\ (~outcome.ok /\ outcome.stage \in {"decode", "translate"})
              => sink = sinkBefore

\* ------------------------------------------------ C9: determinism

\* C9: a second run on the same input report, in the same repository, makes
\* the same document as the first, the order of the catalogue included.
C9_SameDocument ==
    (pc = "done" /\ prevSarif # None /\ outcome.ok) => sarif = prevSarif

\* ------------------------------------------------ C4: the HTTP(S) remote

Https == <<"h", "t", "t", "p", "s", ":", "/", "/">>

\* C4: a remote https://<host>/<repo>.git, the host without '/', is mapped
\* to https://<host>/<repo>.
C4_HttpsRemote ==
    url # NotRun =>
        \A k \in 9..(Len(remote) - 6) :
            LET host == SubSeq(remote, 9, k)
                repo == SubSeq(remote, k + 2, Len(remote) - 4)
            IN  (/\ SubSeq(remote, 1, 8) = Https
                 /\ \A i \in 1..Len(host) : host[i] # "/"
                 /\ remote[k + 1] = "/"
                 /\ SubSeq(remote, Len(remote) - 3, Len(remote)) = DotGit)
                => url = Ok(Https \o host \o <<"/">> \o repo)

\* --------------------------------------------- C5: the derived identifier

\* The places of s where a "::" starts.
SepStarts(s) == {i \in 1..(Len(s) - 1) : s[i] = ":" /\ s[i + 1] = ":"}

\* The separators of s: occurrences of "::" that do not overlap, each "::"
\* of s being one of them or overlapped by the one that starts just before.
Separators(s) ==
    CHOOSE cuts \in SUBSET SepStarts(s) :
        /\ \A i \in cuts : i + 1 \notin cuts
        /\ \A i \in SepStarts(s) : i \in cuts \/ i - 1 \in cuts

\* The "::"-separated segments of s, read off its separators.
Segments(s) ==
    LET cuts == Separators(s)
        n == Cardinality(cuts)
        nth(k) == CHOOSE c \in cuts : Cardinality({d \in cuts : d <= c}) = k
    IN  [k \in 1..(n + 1) |->
            SubSeq(s, IF k = 1 THEN 1 ELSE nth(k - 1) + 2,
                      IF k = n + 1 THEN Len(s) ELSE nth(k) - 1)]

RECURSIVE Flat(_)
Flat(seqs) == IF seqs = <<>> THEN <<>> ELSE Head(seqs) \o Flat(Tail(seqs))

\* "perl/", then for each segment after the fourth, '/' (but before the
\* fifth) and, for each of its characters, '_' if it is uppercase and not the
\* segment's first, and Lower of it.
SnakeId(p, Lower(_)) ==
    LET segs == Segments(p) IN
    <<"p", "e", "r", "l", "/">> \o
    Flat([k \in 1..Len(segs) |->
            IF k <= 4 THEN <<>>
            ELSE (IF k > 5 THEN <<"/">> ELSE <<>>) \o
                 Flat([i \in 1..Len(segs[k]) |->
                        (IF is_uppercase(segs[k][i]) /\ i > 1
                         THEN <<"_">> ELSE <<>>) \o Lower(segs[k][i])])])

\* What camel_to_snake puts for a character: the first character of the
\* lowercase mapping of an uppercase one, any other character unchanged.
FirstLowerOfUpper(c) == IF is_uppercase(c) THEN <<to_lowercase(c)[1]>> ELSE <<c>>

\* C5 as stated: for every policy, policy_to_id is "perl/" followed by the
\* '/'-joined segments after the first 4, each with '_' before every
\* uppercase letter but its first character and with every letter lowercased;
\* fewer than 5 segments give exactly "perl/".
C5_AsStated == id # NoId => id = SnakeId(policy, to_lowercase)

\* C5 amended: the same, where an uppercase character is replaced by the
\* first character of its lowercase mapping and no other character changes
\* (on ASCII text: every letter lowercased); fewer than 5 segments give
\* exactly "perl/".
C5_PolicyToId ==
    id # NoId =>
        /\ id = SnakeId(policy, FirstLowerOfUpper)
        /\ Len(Segments(policy)) < 5 => id = <<"p", "e", "r", "l", "/">>

\* A policy of 6 segments whose fifth has an uppercase letter after its first
\* character has been given its identifier.
C5_Witness ==
    /\ id # NoId
    /\ Len(Segments(policy)) = 6
    /\ \E i \in 2..Len(Segments(policy)[5]) : is_uppercase(Segments(policy)[5][i])
    /\ \E i \in 1..Len(id) : id[i] = "_"

====
